---------------------------- MODULE Spec2Model ----------------------------
(***************************************************************************)
(* Model of nexgen's Tristan NeXus checker (nxs_check/CheckTristanNexus.py), *)
(* of the NeXus writers write_NXmx_nexus and write_nexus_demo              *)
(* (nxs_write/NexusWriter.py) and of the file-extension check of the       *)
(* command line (command_line/__init__.py).                                *)
(*                                                                         *)
(* An HDF5 file is a tree.  A group is a function from member names to     *)
(* nodes; a dataset is a record [value, attrs] whose attrs is a function   *)
(* from attribute keys to values.  A member or an attribute that is absent *)
(* is simply not in the DOMAIN, and reading it raises KeyError, as h5py    *)
(* does.  Paths are sequences of member names.                             *)
(***************************************************************************)
EXTENDS Integers, Sequences, FiniteSets, TLC

VARIABLES
    file,      \* the NeXus file on disk (root group)
    h5py3,     \* TRUE: h5py >= 3 is installed (variable-length strings read as bytes)
    pc,        \* position of run_checks
    run,       \* number of runs of run_checks started on this file
    phases,    \* phases entered by the current run, in order
    writes,    \* write operations issued by the current run, in order
    detected,  \* discrepancies found by the current run (an `if` branch taken)
    checked,   \* transformation groups handed to check_detector_transformations
    pre,       \* the file as it was when the last phase began
    last,      \* what the last phase wrote, found and raised
    start,     \* the file as it was when the current run began
    args,      \* write_NXmx_nexus: goniometer, image count of the data files, timestamps
    wpc,       \* write_NXmx_nexus: position
    data_type, \* write_NXmx_nexus: ("images", num_images)
    osc_axis,  \* write_NXmx_nexus: the scan axis
    scan_range,\* write_NXmx_nexus: the scan positions
    nxs,       \* write_NXmx_nexus: the emissions attempted on the new file, in order
    computed,  \* the calls made to calculate_scan_range, in order
    argv,      \* _CheckFileExtension: the arguments as typed on the command line
    values,    \* _CheckFileExtension: the argument list handed to the action
    phil_args  \* _CheckFileExtension: namespace.phil_args, <<>> until it is set

cvars ==
    <<file, h5py3, pc, run, phases, writes, detected, checked, pre, last, start>>

wvars == <<args, wpc, data_type, osc_axis, scan_range, nxs, computed>>

avars == <<argv, values, phil_args>>

vars == <<cvars, wvars, avars>>

-----------------------------------------------------------------------------
(* h5py primitives *)

IsDataset(n) == DOMAIN n = {"value", "attrs"}

IsGroup(n) == ~IsDataset(n)

Dataset(v, a) == [value |-> v, attrs |-> a]

EmptyGroup == <<>>

RECURSIVE Has(_, _)
Has(node, path) ==
    IF path = <<>> THEN TRUE
    ELSE /\ IsGroup(node)
         /\ Head(path) \in DOMAIN node
         /\ Has(node[Head(path)], Tail(path))

RECURSIVE Get(_, _)
Get(node, path) ==
    IF path = <<>> THEN node ELSE Get(node[Head(path)], Tail(path))

RECURSIVE Put(_, _, _)
Put(node, path, new) ==
    IF path = <<>> THEN new
    ELSE [n \in DOMAIN node \cup {Head(path)} |->
            IF n = Head(path)
            THEN Put(IF Head(path) \in DOMAIN node THEN node[n] ELSE EmptyGroup,
                     Tail(path), new)
            ELSE node[n]]

RECURSIVE Del(_, _)
Del(node, path) ==
    IF Len(path) = 1
    THEN [n \in DOMAIN node \ {Head(path)} |-> node[n]]
    ELSE [n \in DOMAIN node |->
            IF n = Head(path) THEN Del(node[n], Tail(path)) ELSE node[n]]

HasAttr(f, path, key) == Has(f, path) /\ key \in DOMAIN Get(f, path).attrs

AttrOf(f, path, key) == Get(f, path).attrs[key]

SetAttrOf(ds, key, v) ==
    [ds EXCEPT !.attrs = [k \in DOMAIN ds.attrs \cup {key} |->
                            IF k = key THEN v ELSE ds.attrs[k]]]

-----------------------------------------------------------------------------
(* Python strings and HDF5 strings.  np.string_(s) stores fixed-length     *)
(* bytes; a Python str stores a variable-length string.  Reading bytes     *)
(* gives bytes; reading a variable-length string gives str under h5py 2    *)
(* and bytes under h5py 3.  A bytes object never equals a str.             *)

PyStr(s) == [kind |-> "str", text |-> s]

PyBytes(s) == [kind |-> "bytes", text |-> s]

ReadString(v, lib3) ==
    IF v.kind = "str" /\ ~lib3 THEN PyStr(v.text) ELSE PyBytes(v.text)

-----------------------------------------------------------------------------
(* Execution context of one check function: the file, what was written,    *)
(* what was found wrong, and the exception raised, if any.                 *)

NoError == "none"

KeyError == "KeyError"

Ctx(f) ==
    [file |-> f, writes |-> <<>>, detected |-> {}, checked |-> <<>>,
     raised |-> NoError]

Raise(c, e) == [c EXCEPT !.raised = e]

Detect(c, what) == [c EXCEPT !.detected = @ \cup {what}]

Enter(c, group) == [c EXCEPT !.checked = Append(@, group)]

DeleteNode(c, path) ==
    [c EXCEPT !.file = Del(@, path),
              !.writes = Append(@, [op |-> "del", path |-> path, key |-> ""])]

CreateDataset(c, path, v) ==
    [c EXCEPT !.file = Put(@, path, Dataset(v, <<>>)),
              !.writes = Append(@, [op |-> "create", path |-> path, key |-> ""])]

WriteAttr(c, path, key, v) ==
    [c EXCEPT !.file = Put(@, path, SetAttrOf(Get(c.file, path), key, v)),
              !.writes = Append(@, [op |-> "attr", path |-> path, key |-> key])]

-----------------------------------------------------------------------------
(* Fixed paths and canonical values of the I19-2 Tristan layout *)

DefinitionPath == <<"entry", "definition">>

PrimaryPath == <<"entry", "instrument", "detector", "transformations">>

LegacyPath == <<"entry", "instrument", "transformations">>

SamplePath == <<"entry", "sample">>

SampleDependsOnPath == <<"entry", "sample", "depends_on">>

SampleTransfPath == <<"entry", "sample", "transformations">>

DetZPath == <<"detector_z", "det_z">>

Root == "."

NXmx == "NXmx"

DetZVector == <<0, 0, -1>>

DetZDependsOn == "/entry/instrument/detector/transformations/two_theta/two_theta"

SampleDependsOn == "/entry/sample/transformations/phi"

AxisPath(name) == "/entry/sample/transformations/" \o name

\* (axis, expected depends_on), in the order the code checks them
I19Chain ==
    << <<"omega", Root>>,
       <<"kappa", AxisPath("omega")>>,
       <<"phi", AxisPath("kappa")>>,
       <<"sam_x", AxisPath("sam_y")>>,
       <<"sam_y", AxisPath("sam_z")>>,
       <<"sam_z", AxisPath("phi")>> >>

-----------------------------------------------------------------------------
(* check_definition *)

\* the definition is deleted and never written back
check_definition_nocreate(c, lib3) ==
    IF ~Has(c.file, DefinitionPath) THEN Raise(c, KeyError)
    ELSE IF ReadString(Get(c.file, DefinitionPath).value, lib3) # PyStr(NXmx)
    THEN DeleteNode(Detect(c, "definition"), DefinitionPath)
    ELSE c

check_definition(c, lib3) ==
    IF ~Has(c.file, DefinitionPath) THEN Raise(c, KeyError)
    ELSE LET definition == ReadString(Get(c.file, DefinitionPath).value, lib3)
         IN  IF definition # PyStr(NXmx)
             THEN CreateDataset(
                      DeleteNode(Detect(c, "definition"), DefinitionPath),
                      DefinitionPath, PyStr(NXmx))
             ELSE c

-----------------------------------------------------------------------------
(* check_detector_transformations, statement by statement.  Each statement *)
(* is skipped once an exception is in flight.                              *)

\* lines 34-40: the two_theta group, under its current or its older name
TwoThetaName(c, nxtransf) ==
    IF "two_theta" \in DOMAIN Get(c.file, nxtransf) THEN "two_theta" ELSE "twotheta"

\* a copy loop that restores nothing
CopyAttrs_lost(c, path, d, keys) == c

\* lines 48-49: every saved attribute is put back
RECURSIVE CopyAttrs(_, _, _, _)
CopyAttrs(c, path, d, keys) ==
    IF keys = {} THEN c
    ELSE LET k == CHOOSE x \in keys : TRUE
         IN  CopyAttrs(WriteAttr(c, path, k, d[k]), path, d, keys \ {k})

\* lines 41-50
FixTwoThetaValue(c, nxtransf) ==
    IF c.raised # NoError THEN c
    ELSE IF ~Has(c.file, nxtransf \o <<"two_theta">>)
            /\ ~Has(c.file, nxtransf \o <<"twotheta">>) THEN Raise(c, KeyError)
    ELSE LET ds_name == TwoThetaName(c, nxtransf)
             ds == nxtransf \o <<ds_name, ds_name>>
         IN  IF ~Has(c.file, ds) THEN Raise(c, KeyError)
             ELSE IF Get(c.file, ds).value # 0
             THEN LET d == Get(c.file, ds).attrs
                  IN  CopyAttrs(
                          CreateDataset(
                              DeleteNode(Detect(c, "two_theta value"), ds), ds, 0),
                          ds, d, DOMAIN d)
             ELSE c

\* lines 52-56
FixDetZVector(c, nxtransf) ==
    LET det_z == nxtransf \o DetZPath
    IN  IF c.raised # NoError THEN c
        ELSE IF ~HasAttr(c.file, det_z, "vector") THEN Raise(c, KeyError)
        ELSE IF AttrOf(c.file, det_z, "vector") # DetZVector
        THEN WriteAttr(Detect(c, "det_z vector"), det_z, "vector", DetZVector)
        ELSE c

\* lines 58-61
FixTwoThetaDependsOn(c, nxtransf) ==
    IF c.raised # NoError THEN c
    ELSE LET ds_name == TwoThetaName(c, nxtransf)
             ds == nxtransf \o <<ds_name, ds_name>>
         IN  IF ~HasAttr(c.file, ds, "depends_on") THEN Raise(c, KeyError)
             ELSE IF AttrOf(c.file, ds, "depends_on") # Root
             THEN WriteAttr(Detect(c, "two_theta depends_on"), ds, "depends_on", Root)
             ELSE c

\* lines 62-69: the corrected value is compared (==) with the attribute, not
\* assigned to it, so nothing is written
FixDetZDependsOn(c, nxtransf) ==
    LET det_z == nxtransf \o DetZPath
    IN  IF c.raised # NoError THEN c
        ELSE IF ~HasAttr(c.file, det_z, "depends_on") THEN Raise(c, KeyError)
        ELSE IF AttrOf(c.file, det_z, "depends_on") # DetZDependsOn
        THEN Detect(c, "det_z depends_on")
        ELSE c

check_detector_transformations(c, nxtransf) ==
    FixDetZDependsOn(
        FixTwoThetaDependsOn(
            FixDetZVector(
                FixTwoThetaValue(Enter(c, nxtransf), nxtransf),
                nxtransf), nxtransf), nxtransf)

-----------------------------------------------------------------------------
(* check_sample_depends_on *)

\* the missing field is not caught
check_sample_depends_on_noexcept(c, nxsample) ==
    LET p == nxsample \o <<"depends_on">>
    IN  IF ~Has(c.file, p) THEN Raise(c, KeyError)
        ELSE IF Get(c.file, p).value # SampleDependsOn
        THEN CreateDataset(DeleteNode(Detect(c, "sample depends_on"), p),
                           p, SampleDependsOn)
        ELSE c

check_sample_depends_on(c, nxsample) ==
    LET p == nxsample \o <<"depends_on">>
    IN  IF ~Has(c.file, p)
        THEN CreateDataset(Detect(c, "sample depends_on missing"), p, SampleDependsOn)
        ELSE IF Get(c.file, p).value # SampleDependsOn
        THEN CreateDataset(DeleteNode(Detect(c, "sample depends_on"), p),
                           p, SampleDependsOn)
        ELSE c

-----------------------------------------------------------------------------
(* check_I19_dependency_tree: one `if` per axis, in the order of I19Chain *)

\* the expected value is compared and not assigned
CheckAxis_nowrite(c, nxtransf, axis, expected) ==
    LET p == nxtransf \o <<axis>>
    IN  IF c.raised # NoError THEN c
        ELSE IF ~HasAttr(c.file, p, "depends_on") THEN Raise(c, KeyError)
        ELSE IF AttrOf(c.file, p, "depends_on") # expected
        THEN Detect(c, axis)
        ELSE c

\* the axis is deleted and created again with the right depends_on alone
CheckAxis_recreate(c, nxtransf, axis, expected) ==
    LET p == nxtransf \o <<axis>>
    IN  IF c.raised # NoError THEN c
        ELSE IF ~HasAttr(c.file, p, "depends_on") THEN Raise(c, KeyError)
        ELSE IF AttrOf(c.file, p, "depends_on") # expected
        THEN WriteAttr(
                 CreateDataset(DeleteNode(Detect(c, axis), p), p, Get(c.file, p).value),
                 p, "depends_on", expected)
        ELSE c

CheckAxis(c, nxtransf, axis, expected) ==
    LET p == nxtransf \o <<axis>>
    IN  IF c.raised # NoError THEN c
        ELSE IF ~HasAttr(c.file, p, "depends_on") THEN Raise(c, KeyError)
        ELSE IF AttrOf(c.file, p, "depends_on") # expected
        THEN WriteAttr(Detect(c, axis), p, "depends_on", expected)
        ELSE c

RECURSIVE CheckAxes(_, _, _)
CheckAxes(c, nxtransf, i) ==
    IF i > Len(I19Chain) THEN c
    ELSE CheckAxes(CheckAxis(c, nxtransf, I19Chain[i][1], I19Chain[i][2]),
                   nxtransf, i + 1)

check_I19_dependency_tree(c, nxtransf) == CheckAxes(c, nxtransf, 1)

-----------------------------------------------------------------------------
(* The files the checker is run on.  A fragment is a group with no member  *)
(* or one member; a group is the union (@@) of its fragments.              *)

Absent == {<<>>}

Member(name, nodes) == {name :> n : n \in nodes}

Attr(key, vals) == {key :> v : v \in vals}

Datasets(vals, attrsets) == {Dataset(v, a) : v \in vals, a \in attrsets}

Join(A, B) == {a @@ b : a \in A, b \in B}

\* a two-theta group holding its dataset, under the given name
TwoTheta(name, datasets) == Member(name, Member(name, datasets))

DetZ(datasets) == Member("detector_z", Member("det_z", datasets))

TransfGroups(TT, AL, DZ) == Join(Join(TT, AL), DZ)

Typo == "/entry/instrument/detector/transformations/two_theta"

Primary(groups) == Member("detector", Member("transformations", groups))

Legacy(groups) == Member("transformations", groups)

Instrument(primary, legacy) == Join(primary, legacy)

Files(definitions, instruments, samples) ==
    Member("entry",
           Join(Join(definitions, Member("instrument", instruments)), samples))

Definitions(vals) == Member("definition", Datasets(vals, {<<>>}))

Axes == {"sam_x", "sam_y", "sam_z", "phi", "kappa", "omega"}

\* what a depends_on of a sample axis may point at: the root or an axis
AllTargets ==
    <<Root, AxisPath("omega"), AxisPath("kappa"), AxisPath("phi"),
      AxisPath("sam_z"), AxisPath("sam_y"), AxisPath("sam_x")>>

\* bound: how many of AllTargets an axis may initially point at, besides
\* its canonical target
MaxTargets == 4

Canonical(axis) ==
    (CHOOSE i \in 1..Len(I19Chain) : I19Chain[i][1] = axis)

CanonicalDependsOn ==
    [a \in Axes |-> I19Chain[Canonical(a)][2]]

\* the axes group with the given depends_on on each axis
AxesGroup(dep) ==
    [a \in Axes |-> Dataset(0, ("depends_on" :> dep[a]) @@ ("units" :> "deg"))]

SampleBase(vals) == Member("depends_on", Datasets(vals, {<<>>}))

SampleTransf(groups) == Member("transformations", groups)

Samples(dependsOns, transformations) ==
    Member("sample", Join(dependsOns, transformations))

GoodTwoTheta == Dataset(0, ("depends_on" :> Root) @@ ("units" :> "deg"))

BadTwoTheta == Dataset(5, ("depends_on" :> Typo) @@ ("units" :> "deg"))

GoodDetZ ==
    Dataset(250, ("depends_on" :> DetZDependsOn) @@ ("vector" :> DetZVector))

BadDetZ == Dataset(250, ("depends_on" :> Typo) @@ ("vector" :> <<0, 0, 1>>))

GoodTransf ==
    TransfGroups(TwoTheta("two_theta", {GoodTwoTheta}), Absent, DetZ({GoodDetZ}))

GoodSample ==
    Samples(SampleBase({SampleDependsOn}),
            SampleTransf({AxesGroup(CanonicalDependsOn)}))

GoodDefinition == Definitions({PyBytes(NXmx)})

(* Whole files, every part varied a little *)

LeanTransf ==
    TransfGroups(
        TwoTheta("two_theta", {GoodTwoTheta, BadTwoTheta}) \cup Absent,
        Absent,
        DetZ({GoodDetZ, BadDetZ, Dataset(250, "depends_on" :> Typo)}) \cup Absent)

LeanLegacy ==
    TransfGroups(TwoTheta("two_theta", {GoodTwoTheta}), Absent, DetZ({BadDetZ}))
    \cup TransfGroups(Absent, TwoTheta("twotheta", {BadTwoTheta}), DetZ({GoodDetZ}))

AllRoot == [a \in Axes |-> Root]

LeanAxes ==
    {AxesGroup(CanonicalDependsOn), AxesGroup(AllRoot),
     [a \in Axes \ {"omega"} |-> AxesGroup(AllRoot)[a]],
     [AxesGroup(CanonicalDependsOn) EXCEPT !["kappa"] = Dataset(0, "units" :> "deg")]}

LeanFiles ==
    Files(Definitions({PyBytes(NXmx), PyStr(NXmx), PyBytes("NXclassified")})
              \cup Absent,
          Instrument(Primary(LeanTransf) \cup Absent, Legacy(LeanLegacy) \cup Absent),
          Samples(SampleBase({SampleDependsOn, AxisPath("omega")}) \cup Absent,
                  SampleTransf(LeanAxes) \cup Absent)
              \cup Absent)

(* Files whose detector transformation groups vary in every member *)

RichTwoTheta ==
    Datasets({0, 5},
             Join(Attr("depends_on", {Root, Typo}) \cup Absent,
                  Attr("units", {"deg"}) \cup Absent))

RichDetZ ==
    Datasets({250},
             Join(Attr("depends_on", {DetZDependsOn, Typo}) \cup Absent,
                  Attr("vector", {DetZVector, <<0, 0, 1>>}) \cup Absent))

RichTransf ==
    TransfGroups(
        TwoTheta("two_theta", RichTwoTheta) \cup Member("two_theta", {EmptyGroup})
            \cup Absent,
        TwoTheta("twotheta", {GoodTwoTheta, BadTwoTheta}) \cup Absent,
        DetZ(RichDetZ) \cup Absent)

RichLegacy ==
    GoodTransf \cup LeanLegacy
    \cup TransfGroups(TwoTheta("two_theta", {BadTwoTheta}), Absent, Absent)

DetectorFiles ==
    Files(GoodDefinition,
          Instrument(Primary(RichTransf) \cup Absent, Legacy(RichLegacy) \cup Absent),
          GoodSample)

(* Files whose six sample axes carry every assignment of depends_on *)

AxisTargets(a) ==
    {CanonicalDependsOn[a]}
    \cup {AllTargets[i] : i \in 1..(IF MaxTargets < Len(AllTargets)
                                    THEN MaxTargets ELSE Len(AllTargets))}

Assignments == {dep \in [Axes -> {AllTargets[i] : i \in 1..Len(AllTargets)}] :
                    \A a \in Axes : dep[a] \in AxisTargets(a)}

SampleFile(dep) ==
    CHOOSE f \in Files(GoodDefinition, Instrument(Primary(GoodTransf), Absent),
                       Samples(SampleBase({SampleDependsOn}),
                               SampleTransf({AxesGroup(dep)}))) : TRUE

-----------------------------------------------------------------------------
(* run_checks: one action per phase.  A phase that raises ends the run.    *)

\* lines 141-149: the primary group; on any KeyError, the legacy group
DetectorPhase(c) ==
    LET first == IF Has(c.file, PrimaryPath)
                 THEN check_detector_transformations(c, PrimaryPath)
                 ELSE Raise(c, KeyError)
    IN  IF first.raised = KeyError
        THEN IF Has(first.file, LegacyPath)
             THEN check_detector_transformations(Raise(first, NoError), LegacyPath)
             ELSE first
        ELSE first

\* line 152
SampleBasePhase(c) ==
    IF Has(c.file, SamplePath) THEN check_sample_depends_on(c, SamplePath)
    ELSE Raise(c, KeyError)

\* line 155
SampleChainPhase(c) ==
    IF Has(c.file, SampleTransfPath)
    THEN check_I19_dependency_tree(c, SampleTransfPath)
    ELSE Raise(c, KeyError)

\* bound: runs of run_checks on one file
MaxRuns == 2

Quiet == [writes |-> <<>>, detected |-> {}, raised |-> NoError]

\* lines 127-134: the file is opened for a new run
Open ==
    /\ pc \in {"START", "DONE"}
    /\ run < MaxRuns
    /\ pc' = "OPEN"
    /\ run' = run + 1
    /\ phases' = <<"OPEN">>
    /\ writes' = <<>>
    /\ detected' = {}
    /\ checked' = <<>>
    /\ pre' = file
    /\ last' = Quiet
    /\ start' = file
    /\ UNCHANGED <<file, h5py3, wvars, avars>>

\* phase p has run to its end or to its exception, leaving context c
Step(p, c) ==
    /\ file' = c.file
    /\ writes' = writes \o c.writes
    /\ detected' = detected \cup c.detected
    /\ checked' = checked \o c.checked
    /\ pc' = IF c.raised = NoError THEN p ELSE "FAILED"
    /\ phases' = Append(phases, p)
    /\ pre' = file
    /\ last' = [writes |-> c.writes, detected |-> c.detected, raised |-> c.raised]
    /\ UNCHANGED <<h5py3, run, start, wvars, avars>>

\* lines 135-136
CheckDefinition ==
    /\ pc = "OPEN"
    /\ Step("CHECK_DEFINITION", check_definition(Ctx(file), h5py3))

\* lines 137-149
CheckDetectorChain ==
    /\ pc = "CHECK_DEFINITION"
    /\ Step("CHECK_DETECTOR_CHAIN", DetectorPhase(Ctx(file)))

\* lines 150-152
CheckSampleBase ==
    /\ pc = "CHECK_DETECTOR_CHAIN"
    /\ Step("CHECK_SAMPLE_BASE", SampleBasePhase(Ctx(file)))

\* the goniometer check is called before the sample depends_on check
CheckSampleChain_early ==
    /\ pc = "CHECK_DETECTOR_CHAIN"
    /\ Step("CHECK_SAMPLE_CHAIN", SampleChainPhase(Ctx(file)))

\* lines 153-155
CheckSampleChain ==
    /\ pc = "CHECK_SAMPLE_BASE"
    /\ Step("CHECK_SAMPLE_CHAIN", SampleChainPhase(Ctx(file)))

\* line 156: the last check returned; the file is closed
Finish ==
    /\ pc = "CHECK_SAMPLE_CHAIN"
    /\ pc' = "DONE"
    /\ phases' = Append(phases, "DONE")
    /\ UNCHANGED <<file, h5py3, run, writes, detected, checked, pre, last, start,
                   wvars, avars>>

Next ==
    \/ Open
    \/ CheckDefinition
    \/ CheckDetectorChain
    \/ CheckSampleBase
    \/ CheckSampleChain
    \/ Finish

-----------------------------------------------------------------------------
(* write_NXmx_nexus.  A scan position is a fraction [num, den].            *)

None == "None"

\* bounds of the goniometer description and of the data files
MaxEnd == 3

MaxIncrement == 2

MaxImages == 3

GonioAxes == <<"omega", "phi">>

Goniometers ==
    [axes : {GonioAxes},
     starts : [1..Len(GonioAxes) -> {0}],
     ends : [1..Len(GonioAxes) -> 0..MaxEnd],
     increments : [1..Len(GonioAxes) -> 0..MaxIncrement]]

Arguments ==
    [goniometer : Goniometers,
     num_images : 1..MaxImages,
     timestamps : {<<None, None>>, <<"t0", None>>, <<None, "t1">>, <<"t0", "t1">>}]

\* the scan axis is the one axis in motion; none or several is an error
find_scan_axis(axes, starts, ends) ==
    LET moving == {i \in 1..Len(axes) : starts[i] # ends[i]}
    IN  IF Cardinality(moving) = 1
        THEN [ok |-> TRUE, axis |-> axes[CHOOSE i \in moving : TRUE]]
        ELSE [ok |-> FALSE, axis |-> None]

\* positions start, start + increment, ... below end
from_increment(first, end, increment) ==
    LET n == IF end > first
             THEN (end - first + increment - 1) \div increment ELSE 0
    IN  [k \in 1..n |-> [num |-> first + (k - 1) * increment, den |-> 1]]

\* count evenly spaced positions from start to end, both included
from_frame_count(first, end, count) ==
    [k \in 1..count |->
        IF count = 1 THEN [num |-> first, den |-> 1]
        ELSE [num |-> first * (count - 1) + (k - 1) * (end - first),
              den |-> count - 1]]

IndexOf(axes, name) == CHOOSE i \in 1..Len(axes) : axes[i] = name

\* the two ways calculate_scan_range is called
IncrementCall(increment) == [mode |-> "axis_increment", arg |-> increment]

FrameCountCall(n_images) == [mode |-> "n_images", arg |-> n_images]

\* the increment-based computation has no grid for an increment of zero
calculate_scan_range(first, end, call) ==
    IF call.mode = "n_images"
    THEN [ok |-> TRUE, range |-> from_frame_count(first, end, call.arg)]
    ELSE IF call.arg = 0 THEN [ok |-> FALSE, range |-> <<>>]
    ELSE [ok |-> TRUE, range |-> from_increment(first, end, call.arg)]

\* lines 73-82: which call write_NXmx_nexus makes
ScanRangeCall(goniometer, axis, num_images) ==
    LET idx == IndexOf(goniometer.axes, axis)
    IN  IF goniometer.increments[idx] # 0
        THEN IncrementCall(goniometer.increments[idx])
        ELSE FrameCountCall(num_images)

\* lines 71-82
ComputeScanRange(goniometer, axis, num_images) ==
    LET idx == IndexOf(goniometer.axes, axis)
    IN  calculate_scan_range(goniometer.starts[idx], goniometer.ends[idx],
                             ScanRangeCall(goniometer, axis, num_images)).range

\* data_type[1] is None: the number of images is not forced
Unforced == -1

\* lines 158-171: which call write_nexus_demo makes in images mode
DemoScanRangeCall(goniometer, axis, type) ==
    LET idx == IndexOf(goniometer.axes, axis)
    IN  IF type[2] = Unforced
        THEN IncrementCall(goniometer.increments[idx])
        ELSE FrameCountCall(type[2])

Emit(what) == [call |-> what, scan_range |-> <<>>, frames |-> 0]

\* a writer that is handed the scan range, the data type, or both
EmitWith(what, range, type) ==
    [call |-> what, scan_range |-> range, frames |-> type[2]]

\* lines 84-94
EntryWrites ==
    <<Emit("attrs default"), Emit("create_group entry"),
      Emit("attrs NX_class"), Emit("attrs entry default"),
      Emit("create_dataset definition")>>

\* the source is written before the detector module
call_writers_swapped(range, type) ==
    <<EmitWith("write_NXdata", range, type),
      Emit("write_NXinstrument"),
      EmitWith("write_NXdetector", <<>>, type),
      Emit("write_NXsource"),
      Emit("write_NXdetector_module"),
      EmitWith("write_NXsample", range, type)>>

\* lines 199-259
call_writers(range, type) ==
    <<EmitWith("write_NXdata", range, type),
      Emit("write_NXinstrument"),
      EmitWith("write_NXdetector", <<>>, type),
      Emit("write_NXdetector_module"),
      Emit("write_NXsource"),
      EmitWith("write_NXsample", range, type)>>

\* end_time is written inside the branch that writes start_time
TimestampWrites_nested(timestamps) ==
    IF timestamps[1] # None
    THEN <<Emit("create_dataset start_time")>>
         \o (IF timestamps[2] # None THEN <<Emit("create_dataset end_time")>> ELSE <<>>)
    ELSE <<>>

\* lines 113-117
TimestampWrites(timestamps) ==
    (IF timestamps[1] # None THEN <<Emit("create_dataset start_time")>> ELSE <<>>)
    \o (IF timestamps[2] # None THEN <<Emit("create_dataset end_time")>> ELSE <<>>)

\* The emissions of seq are attempted in order.  Each is a call into h5py
\* and may raise; nothing catches the exception, so the function ends there
\* and the emission that raised is the last one attempted.
Emissions(seq, next) ==
    \/ /\ nxs' = nxs \o seq
       /\ wpc' = next
    \/ \E k \in 1..Len(seq) :
          /\ nxs' = nxs \o SubSeq(seq, 1, k)
          /\ wpc' = "aborted"

WriterIdle ==
    /\ args = None
    /\ wpc = "idle"
    /\ data_type = <<None, 0>>
    /\ osc_axis = None
    /\ scan_range = <<>>
    /\ nxs = <<>>
    /\ computed = <<>>

\* lines 59-66
CountImages ==
    /\ wpc = "start"
    /\ data_type' = <<"images", args.num_images>>
    /\ wpc' = "find_scan_axis"
    /\ UNCHANGED <<cvars, avars, args, osc_axis, scan_range, nxs, computed>>

\* the default attribute of the file is set before the scan axis is looked for
FindScanAxis_late ==
    /\ wpc = "find_scan_axis"
    /\ LET r == find_scan_axis(args.goniometer.axes, args.goniometer.starts,
                               args.goniometer.ends)
       IN  /\ osc_axis' = r.axis
           /\ wpc' = IF r.ok THEN "scan_range" ELSE "failed"
    /\ nxs' = nxs \o <<Emit("attrs default")>>
    /\ UNCHANGED <<cvars, avars, args, data_type, scan_range, computed>>

\* lines 68-69
FindScanAxis ==
    /\ wpc = "find_scan_axis"
    /\ LET r == find_scan_axis(args.goniometer.axes, args.goniometer.starts,
                               args.goniometer.ends)
       IN  /\ osc_axis' = r.axis
           /\ wpc' = IF r.ok THEN "scan_range" ELSE "failed"
    /\ UNCHANGED <<cvars, avars, args, data_type, scan_range, nxs, computed>>

\* lines 71-82
ScanRange ==
    /\ wpc = "scan_range"
    /\ scan_range' = ComputeScanRange(args.goniometer, osc_axis, data_type[2])
    /\ computed' = Append(computed, ScanRangeCall(args.goniometer, osc_axis, data_type[2]))
    /\ wpc' = "entry"
    /\ UNCHANGED <<cvars, avars, args, data_type, osc_axis, nxs>>

\* lines 84-94
WriteEntry ==
    /\ wpc = "entry"
    /\ Emissions(EntryWrites, "call_writers")
    /\ UNCHANGED <<cvars, avars, args, data_type, osc_axis, scan_range, computed>>

\* lines 96-111
CallWriters ==
    /\ wpc = "call_writers"
    /\ Emissions(call_writers(scan_range, data_type), "timestamps")
    /\ UNCHANGED <<cvars, avars, args, data_type, osc_axis, scan_range, computed>>

\* lines 113-117
WriteTimestamps ==
    /\ wpc = "timestamps"
    /\ Emissions(TimestampWrites(args.timestamps), "done")
    /\ UNCHANGED <<cvars, avars, args, data_type, osc_axis, scan_range, computed>>

NextWriter ==
    \/ CountImages
    \/ FindScanAxis
    \/ ScanRange
    \/ WriteEntry
    \/ CallWriters
    \/ WriteTimestamps

-----------------------------------------------------------------------------
(* write_nexus_demo *)

\* ("images", None): as many images as the increment gives;
\* ("images", n) and ("events", n): the number is forced
DataTypes ==
    {<<"images", Unforced>>}
    \cup {<<"images", n>> : n \in 1..MaxImages}
    \cup {<<"events", n>> : n \in 1..MaxImages}

DemoArguments == [goniometer : Goniometers, data_type : DataTypes]

\* lines 153-154
DemoFindScanAxis ==
    /\ wpc = "demo"
    /\ LET r == find_scan_axis(args.goniometer.axes, args.goniometer.starts,
                               args.goniometer.ends)
       IN  /\ osc_axis' = r.axis
           /\ wpc' = IF r.ok THEN "demo scan_range" ELSE "failed"
    /\ UNCHANGED <<cvars, avars, args, data_type, scan_range, nxs, computed>>

\* lines 156-171
DemoScanRange ==
    /\ wpc = "demo scan_range"
    /\ LET g == args.goniometer
           idx == IndexOf(g.axes, osc_axis)
       IN  IF data_type[1] = "images"
           THEN LET call == DemoScanRangeCall(g, osc_axis, data_type)
                    r == calculate_scan_range(g.starts[idx], g.ends[idx], call)
                IN  /\ computed' = Append(computed, call)
                    /\ scan_range' = r.range
                    /\ data_type' = IF r.ok /\ data_type[2] = Unforced
                                    THEN <<"images", Len(r.range)>>
                                    ELSE data_type
                    /\ wpc' = IF r.ok THEN "data_writer" ELSE "failed"
           ELSE /\ scan_range' = <<[num |-> g.starts[idx], den |-> 1],
                                   [num |-> g.ends[idx], den |-> 1]>>
                /\ wpc' = "data_writer"
                /\ UNCHANGED <<computed, data_type>>
    /\ UNCHANGED <<cvars, avars, args, osc_axis, nxs>>

\* lines 173-179: the blank data files are written
DemoDataWriter ==
    /\ wpc = "data_writer"
    /\ Emissions(<<EmitWith("data_writer", scan_range, data_type)>>,
                 "demo call_writers")
    /\ UNCHANGED <<cvars, avars, args, data_type, osc_axis, scan_range, computed>>

\* lines 181-196
DemoCallWriters ==
    /\ wpc = "demo call_writers"
    /\ Emissions(call_writers(scan_range, data_type), "done")
    /\ UNCHANGED <<cvars, avars, args, data_type, osc_axis, scan_range, computed>>

NextDemo ==
    \/ DemoFindScanAxis
    \/ DemoScanRange
    \/ DemoDataWriter
    \/ DemoCallWriters

\* either function is called
NextAssembly ==
    \/ NextWriter
    \/ NextDemo

-----------------------------------------------------------------------------
(* _CheckFileExtension.  An argument is a string, modelled as the sequence *)
(* of its pieces: "/" and "." are pieces of their own, every other piece   *)
(* is a run of characters holding neither.                                 *)

\* "filename" in v
Contains(v, word) == \E i \in 1..Len(v) : v[i] = word

LastIndex(v, piece) ==
    IF Contains(v, piece)
    THEN CHOOSE i \in 1..Len(v) :
             v[i] = piece /\ \A j \in (i + 1)..Len(v) : v[j] # piece
    ELSE 0

\* Path(v).name: what follows the last "/".  expanduser() and resolve()
\* change the directories in front of it only.
PathName(v) == SubSeq(v, LastIndex(v, "/") + 1, Len(v))

\* the last "." of a name starts its suffix, unless it is the first or
\* the last character of the name
SuffixIndex(name) ==
    LET i == LastIndex(name, ".")
    IN  IF 1 < i /\ i < Len(name) THEN i ELSE 0

\* Path(v).suffix
PathSuffix(v) ==
    LET name == PathName(v)
    IN  IF SuffixIndex(name) = 0 THEN <<>>
        ELSE SubSeq(name, SuffixIndex(name), Len(name))

\* Path(v).stem
PathStem(v) ==
    LET name == PathName(v)
    IN  IF SuffixIndex(name) = 0 THEN name
        ELSE SubSeq(name, 1, SuffixIndex(name) - 1)

\* line 47: the first argument that holds "filename"
FirstFilename(vals) ==
    CHOOSE i \in 1..Len(vals) :
        /\ Contains(vals[i], "filename")
        /\ \A j \in 1..(i - 1) : ~Contains(vals[j], "filename")

\* lines 45-55
FixExtension(vals) ==
    IF \E i \in 1..Len(vals) : Contains(vals[i], "filename")
    THEN LET i == FirstFilename(vals)
             ext == PathSuffix(vals[i])
         IN  IF ext # <<".", "h5">> /\ ext # <<".", "nxs">>
             THEN [vals EXCEPT ![i] = PathStem(vals[i]) \o <<".", "nxs">>]
             ELSE vals
    ELSE vals

\* bound: arguments on the command line
MaxArgs == 2

FilenameArguments ==
    {key \o dir \o <<"a">> \o ext :
        key \in {<<"filename", "=">>, <<"output", ".", "filename", "=">>},
        dir \in {<<>>, <<"d", "/">>},
        ext \in {<<>>, <<".", "h5">>, <<".", "nxs">>, <<".", "txt">>}}

OtherArguments == {<<"vds", "=", "a">>, <<"n", "=", "3">>}

ArgumentLists ==
    UNION {[1..n -> FilenameArguments \cup OtherArguments] : n \in 0..MaxArgs}

\* lines 44-56: the list is changed in place and stored in the namespace
CheckFileExtension ==
    /\ phil_args = <<>>
    /\ values' = FixExtension(values)
    /\ phil_args' = <<FixExtension(values)>>
    /\ UNCHANGED <<cvars, wvars, argv>>

NextParser == CheckFileExtension

-----------------------------------------------------------------------------
(* Initial states and specifications *)

ParserIdle ==
    /\ argv = <<>>
    /\ values = <<>>
    /\ phil_args = <<>>

InitRun ==
    /\ h5py3 \in BOOLEAN
    /\ pc = "START"
    /\ run = 0
    /\ phases = <<>>
    /\ writes = <<>>
    /\ detected = {}
    /\ checked = <<>>
    /\ pre = file
    /\ last = Quiet
    /\ start = file
    /\ WriterIdle
    /\ ParserIdle

Init == file \in LeanFiles /\ InitRun

InitDetector == file \in DetectorFiles /\ InitRun

InitSample ==
    /\ \E dep \in Assignments : file = SampleFile(dep)
    /\ InitRun

CheckerIdle ==
    /\ file = EmptyGroup
    /\ h5py3 = FALSE
    /\ pc = "idle"
    /\ run = 0
    /\ phases = <<>>
    /\ writes = <<>>
    /\ detected = {}
    /\ checked = <<>>
    /\ pre = EmptyGroup
    /\ last = Quiet
    /\ start = EmptyGroup

InitWriter ==
    /\ CheckerIdle
    /\ ParserIdle
    /\ args \in Arguments
    /\ wpc = "start"
    /\ data_type = <<None, 0>>
    /\ osc_axis = None
    /\ scan_range = <<>>
    /\ nxs = <<>>
    /\ computed = <<>>

InitDemo ==
    /\ CheckerIdle
    /\ ParserIdle
    /\ args \in DemoArguments
    /\ wpc = "demo"
    /\ data_type = args.data_type
    /\ osc_axis = None
    /\ scan_range = <<>>
    /\ nxs = <<>>
    /\ computed = <<>>

InitAssembly == InitWriter \/ InitDemo

InitParser ==
    /\ CheckerIdle
    /\ WriterIdle
    /\ argv \in ArgumentLists
    /\ values = argv
    /\ phil_args = <<>>

InitH5py2 == Init /\ ~h5py3

Spec == Init /\ [][Next]_vars

SpecDetector == InitDetector /\ [][Next]_vars

SpecSample == InitSample /\ [][Next]_vars

\* the checker under h5py 2
SpecH5py2 == InitH5py2 /\ [][Next]_vars

SpecWriter == InitWriter /\ [][NextWriter]_vars

\* write_NXmx_nexus or write_nexus_demo
SpecAssembly == InitAssembly /\ [][NextAssembly]_vars

\* the demo command line is parsed
SpecParser == InitParser /\ [][NextParser]_vars

-----------------------------------------------------------------------------
(* Properties *)

LastPhase == IF phases = <<>> THEN "NONE" ELSE phases[Len(phases)]

Ops(ws) == [i \in 1..Len(ws) |-> ws[i].op]

\* the two-theta dataset check_detector_transformations works on in group g
TwoThetaIn(f, g) ==
    LET n == IF Has(f, g \o <<"two_theta">>) THEN "two_theta" ELSE "twotheta"
    IN  g \o <<n, n>>

\* C1: a second run of run_checks on the file a completed run left behind
\* finds no discrepancy and writes nothing, in any phase.
C1_SecondRunIsQuiet == run >= 2 => (detected = {} /\ writes = <<>>)

CanonicalDetectorChain(f, g) ==
    /\ Get(f, TwoThetaIn(f, g)).value = 0
    /\ AttrOf(f, TwoThetaIn(f, g), "depends_on") = "."
    /\ AttrOf(f, g \o DetZPath, "vector") = <<0, 0, -1>>
    /\ AttrOf(f, g \o DetZPath, "depends_on")
           = "/entry/instrument/detector/transformations/two_theta/two_theta"

\* C2: once check_detector_transformations has completed on a group, that
\* group holds the canonical detector chain in every field: two_theta value 0
\* and depends_on ".", det_z vector [0, 0, -1] and det_z depends_on the
\* two_theta dataset.
C2_DetectorChainCanonical ==
    pc = "CHECK_DETECTOR_CHAIN" => CanonicalDetectorChain(file, checked[Len(checked)])

NonZeroTwoTheta(g) ==
    /\ Has(pre, TwoThetaIn(pre, g))
    /\ Get(pre, TwoThetaIn(pre, g)).value # 0

\* C3 as stated: a non-zero two_theta is set to 0 by the detector-chain
\* repair and every attribute of the dataset is exactly as it was.
C3_AllAttributesUntouched ==
    LastPhase = "CHECK_DETECTOR_CHAIN" =>
        \A i \in 1..Len(checked) :
            NonZeroTwoTheta(checked[i]) =>
                /\ Has(file, TwoThetaIn(pre, checked[i]))
                /\ Get(file, TwoThetaIn(pre, checked[i])).value = 0
                /\ Get(file, TwoThetaIn(pre, checked[i])).attrs
                       = Get(pre, TwoThetaIn(pre, checked[i])).attrs

\* C3 amended: a non-zero two_theta is set to 0 by the detector-chain repair;
\* the dataset keeps its set of attribute keys and the value of every
\* attribute other than depends_on, and depends_on is as it was or ".".
C3_ValueRepairKeepsAttributes ==
    LastPhase = "CHECK_DETECTOR_CHAIN" =>
        \A i \in 1..Len(checked) :
            NonZeroTwoTheta(checked[i]) =>
                LET old == Get(pre, TwoThetaIn(pre, checked[i])).attrs
                    new == Get(file, TwoThetaIn(pre, checked[i])).attrs
                IN  /\ Has(file, TwoThetaIn(pre, checked[i]))
                    /\ Get(file, TwoThetaIn(pre, checked[i])).value = 0
                    /\ DOMAIN new = DOMAIN old
                    /\ \A k \in DOMAIN old \ {"depends_on"} : new[k] = old[k]
                    /\ "depends_on" \in DOMAIN old =>
                           new["depends_on"] \in {old["depends_on"], "."}

C3_Witness ==
    /\ pc = "CHECK_DETECTOR_CHAIN"
    /\ checked = <<PrimaryPath>>
    /\ Get(pre, PrimaryPath \o <<"two_theta", "two_theta">>) = BadTwoTheta
    /\ Get(file, PrimaryPath \o <<"two_theta", "two_theta">>)
           = Dataset(0, ("depends_on" :> ".") @@ ("units" :> "deg"))

\* C4: when entry/definition holds anything other than "NXmx", after
\* check_definition the dataset exists and reads "NXmx", and nothing else
\* in the file was created, deleted or changed.
C4_DefinitionRewritten ==
    (/\ LastPhase = "CHECK_DEFINITION"
     /\ Has(pre, DefinitionPath)
     /\ Get(pre, DefinitionPath).value.text # "NXmx")
    => /\ pc = "CHECK_DEFINITION"
       /\ "definition" \in DOMAIN file["entry"]
       /\ ReadString(Get(file, DefinitionPath).value, h5py3).text = "NXmx"
       /\ Del(file, DefinitionPath) = Del(pre, DefinitionPath)

C4_Witness ==
    /\ pc = "CHECK_DEFINITION"
    /\ Get(pre, DefinitionPath).value.text = "NXclassified"
    /\ Get(file, DefinitionPath).value.text = "NXmx"
    /\ Has(file, LegacyPath)

DepOf(f, a) == AttrOf(f, SampleTransfPath \o <<a>>, "depends_on")

IsAxisTarget(t) == \E b \in Axes : t = "/entry/sample/transformations/" \o b

AxisOf(t) == CHOOSE b \in Axes : t = "/entry/sample/transformations/" \o b

\* the axes met walking depends_on from a, a included, for at most n hops
RECURSIVE Walk(_, _, _)
Walk(f, a, n) ==
    IF n = 0 \/ ~IsAxisTarget(DepOf(f, a)) THEN <<a>>
    ELSE <<a>> \o Walk(f, AxisOf(DepOf(f, a)), n - 1)

ReachesRoot(f, a, n) == DepOf(f, Walk(f, a, n)[Len(Walk(f, a, n))]) = "."

\* C5: after check_I19_dependency_tree the six depends_on pointers form the
\* single path sam_x -> sam_y -> sam_z -> phi -> kappa -> omega -> ".": omega
\* alone points at the root, every other axis points at another axis, no two
\* axes point at the same target, and from every axis the walk comes to the
\* axis that points at the root within 5 hops.
C5_SimplePath ==
    pc \in {"CHECK_SAMPLE_CHAIN", "DONE"} =>
        /\ {a \in Axes : DepOf(file, a) = "."} = {"omega"}
        /\ \A a \in Axes \ {"omega"} :
               IsAxisTarget(DepOf(file, a)) /\ AxisOf(DepOf(file, a)) # a
        /\ \A a, b \in Axes : a # b => DepOf(file, a) # DepOf(file, b)
        /\ \A a \in Axes : ReachesRoot(file, a, 5)
        /\ Walk(file, "sam_x", 6)
               = <<"sam_x", "sam_y", "sam_z", "phi", "kappa", "omega">>

\* the pointers the run started from hold a cycle and two roots
C5_Witness ==
    /\ pc = "CHECK_SAMPLE_CHAIN"
    /\ DepOf(start, "omega") = AxisPath("kappa")
    /\ DepOf(start, "kappa") = AxisPath("omega")
    /\ DepOf(start, "sam_x") = "."
    /\ DepOf(start, "sam_y") = "."
    /\ Len(last.writes) >= 4
    /\ Walk(file, "sam_x", 6) = <<"sam_x", "sam_y", "sam_z", "phi", "kappa", "omega">>

\* C6: after check_sample_depends_on, entry/sample/depends_on exists and is
\* "/entry/sample/transformations/phi": created when it was absent, deleted
\* and recreated when it was wrong, not written when it was right; a missing
\* field never makes the phase fail.
C6_SampleDependsOnEnsured ==
    (LastPhase = "CHECK_SAMPLE_BASE" /\ Has(pre, SamplePath)) =>
        /\ pc = "CHECK_SAMPLE_BASE"
        /\ Has(file, SampleDependsOnPath)
        /\ Get(file, SampleDependsOnPath).value = "/entry/sample/transformations/phi"
        /\ \A i \in 1..Len(last.writes) : last.writes[i].path = SampleDependsOnPath
        /\ Del(file, SampleDependsOnPath)
               = (IF Has(pre, SampleDependsOnPath)
                  THEN Del(pre, SampleDependsOnPath) ELSE pre)
        /\ Ops(last.writes) =
               (IF ~Has(pre, SampleDependsOnPath) THEN <<"create">>
                ELSE IF Get(pre, SampleDependsOnPath).value
                            # "/entry/sample/transformations/phi"
                THEN <<"del", "create">>
                ELSE <<>>)

C6_Witness ==
    /\ pc = "CHECK_SAMPLE_BASE"
    /\ ~Has(pre, SampleDependsOnPath)
    /\ Get(file, SampleDependsOnPath).value = "/entry/sample/transformations/phi"

\* C7: the detector check runs on the primary group whenever it exists; the
\* legacy group is inspected or modified only when the primary group is
\* absent; with neither group the run fails.
C7_PrimaryThenLegacyThenFatal ==
    LastPhase = "CHECK_DETECTOR_CHAIN" =>
        /\ Has(pre, PrimaryPath) =>
               /\ checked = <<PrimaryPath>>
               /\ Has(pre, LegacyPath) =>
                      Get(file, LegacyPath) = Get(pre, LegacyPath)
        /\ (~Has(pre, PrimaryPath) /\ Has(pre, LegacyPath)) =>
               checked = <<LegacyPath>>
        /\ (~Has(pre, PrimaryPath) /\ ~Has(pre, LegacyPath)) =>
               (pc = "FAILED" /\ checked = <<>>)

DetectorMembersPresent(f, g) ==
    /\ Has(f, g)
    /\ Has(f, TwoThetaIn(f, g))
    /\ Has(f, g \o DetZPath)

AllReferencedPresent(f) ==
    /\ Has(f, DefinitionPath)
    /\ DetectorMembersPresent(f, PrimaryPath)
          \/ (~Has(f, PrimaryPath) /\ DetectorMembersPresent(f, LegacyPath))
    /\ Has(f, SamplePath)
    /\ \A a \in Axes : Has(f, SampleTransfPath \o <<a>>)

\* C8: on a file that holds every referenced group and axis dataset, the run
\* never fails, whatever the checked fields hold; a run fails only when one
\* of them is absent.
C8_FailsOnlyOnAbsence == pc = "FAILED" => ~AllReferencedPresent(start)

IsPrefix(s, t) == Len(s) <= Len(t) /\ \A i \in 1..Len(s) : s[i] = t[i]

\* C9: the phases of a run are entered in the order OPEN, CHECK_DEFINITION,
\* CHECK_DETECTOR_CHAIN, CHECK_SAMPLE_BASE, CHECK_SAMPLE_CHAIN, DONE, each at
\* most once, and DONE only after all four checks have completed.
C9_LinearPass ==
    /\ IsPrefix(phases, <<"OPEN", "CHECK_DEFINITION", "CHECK_DETECTOR_CHAIN",
                          "CHECK_SAMPLE_BASE", "CHECK_SAMPLE_CHAIN", "DONE">>)
    /\ pc \notin {"START", "FAILED"} => pc = LastPhase
    /\ pc = "DONE" => Len(phases) = 6

C9_Witness ==
    /\ pc = "DONE"
    /\ run = 2
    /\ phases[5] = "CHECK_SAMPLE_CHAIN"

\* C10: whenever the axis increment and the image count of the data files
\* are both known, the writers are called only with a scan range that has as
\* many positions as data_type has images; a disagreement is reported and
\* the tree is not written.
C10_ScanRangeMatchesImageCount ==
    \A i \in 1..Len(nxs) :
        (/\ nxs[i].call \in {"write_NXdata", "write_NXsample"}
         /\ args.goniometer.increments[IndexOf(args.goniometer.axes, osc_axis)] # 0)
        => Len(nxs[i].scan_range) = nxs[i].frames

Calls(log) == [i \in 1..Len(log) |-> log[i].call]

Attempted(what) == \E i \in 1..Len(nxs) : nxs[i].call = what

\* C11: in write_NXmx_nexus and write_nexus_demo the scan axis is identified
\* and the scan range is computed before the first write of any kind; when
\* either of them fails, nothing has been written.
C11_FailFast ==
    /\ wpc = "failed" => nxs = <<>>
    /\ nxs # <<>> =>
           /\ \E i \in 1..Len(args.goniometer.axes) : args.goniometer.axes[i] = osc_axis
           /\ scan_range # <<>>
           /\ data_type[1] = "images" => Len(computed) = 1

\* the scan axis was found and the scan range could not be computed
C11_Witness ==
    /\ wpc = "failed"
    /\ osc_axis = "phi"
    /\ Len(computed) = 1
    /\ nxs = <<>>

AssemblyOrder(timestamps) ==
    <<"attrs default", "create_group entry", "attrs NX_class",
      "attrs entry default", "create_dataset definition",
      "write_NXdata", "write_NXinstrument", "write_NXdetector",
      "write_NXdetector_module", "write_NXsource", "write_NXsample">>
    \o (IF timestamps[1] # "None" THEN <<"create_dataset start_time">> ELSE <<>>)
    \o (IF timestamps[2] # "None" THEN <<"create_dataset end_time">> ELSE <<>>)

\* C12: write_NXmx_nexus emits the entry and its definition, then write_NXdata,
\* write_NXinstrument, write_NXdetector, write_NXdetector_module,
\* write_NXsource, write_NXsample, then the timestamps, each once and in this
\* order; once an emission has failed nothing more is emitted and the failed
\* emission is not repeated.
C12_FixedOrderNoRetry ==
    [][/\ IsPrefix(Calls(nxs'), AssemblyOrder(args.timestamps))
       /\ IsPrefix(Calls(nxs), Calls(nxs'))
       /\ wpc \in {"aborted", "failed", "done"} => nxs' = nxs
       /\ wpc' = "done" => Calls(nxs') = AssemblyOrder(args.timestamps)]_vars

\* write_NXsource raised after four writers had returned
C12_Witness ==
    /\ wpc = "aborted"
    /\ Calls(nxs) = SubSeq(AssemblyOrder(args.timestamps), 1, 10)

\* C13: a scan axis whose increment is 0 is never handed to the
\* increment-based computation, in write_NXmx_nexus and in the images mode of
\* write_nexus_demo: calculate_scan_range is called with axis_increment only
\* when the increment is non-zero.
C13_ZeroIncrementUsesFrameCount ==
    \A i \in 1..Len(computed) :
        computed[i].mode = "axis_increment" => computed[i].arg # 0

\* C18: entry/start_time is written exactly when timestamps[0] is supplied and
\* entry/end_time exactly when timestamps[1] is supplied, each without regard
\* to the other, and a timestamp that is not supplied never makes
\* write_NXmx_nexus fail: after the six writers only the write of a supplied
\* timestamp can raise.
C18_TimestampsOptional ==
    /\ Attempted("create_dataset start_time") => args.timestamps[1] # "None"
    /\ Attempted("create_dataset end_time") => args.timestamps[2] # "None"
    /\ wpc = "done" =>
           /\ Attempted("create_dataset start_time") <=> args.timestamps[1] # "None"
           /\ Attempted("create_dataset end_time") <=> args.timestamps[2] # "None"
    /\ (wpc = "aborted" /\ Attempted("write_NXsample")
            /\ nxs[Len(nxs)].call # "write_NXsample")
       => /\ args.timestamps # <<"None", "None">>
          /\ nxs[Len(nxs)].call \in {"create_dataset start_time",
                                     "create_dataset end_time"}

\* only the end time is supplied
C18_Witness ==
    /\ wpc = "done"
    /\ args.timestamps = <<"None", "t1">>
    /\ Len(nxs) = 12
    /\ nxs[12].call = "create_dataset end_time"

HasRecognizedSuffix(v) ==
    /\ Len(v) >= 2
    /\ SubSeq(v, Len(v) - 1, Len(v)) \in {<<".", "h5">>, <<".", "nxs">>}

\* v with its suffix, if any, replaced by ".nxs": a suffix is a "." and
\* what follows it, to the end of v
WithDefaultSuffix(v) ==
    LET base == IF Len(v) >= 3 /\ v[Len(v) - 1] = "." /\ v[Len(v) - 2] # "/"
                THEN SubSeq(v, 1, Len(v) - 2) ELSE v
    IN  base \o <<".", "nxs">>

\* C14: the list stored by _CheckFileExtension has the arguments of the
\* command line in the same order; a filename argument whose suffix is
\* neither ".h5" nor ".nxs" is stored with ".nxs" in place of its suffix and
\* nothing else of it changed; every other argument is stored as typed.
C14_OnlySuffixReplaced ==
    phil_args # <<>> =>
        /\ Len(phil_args[1]) = Len(argv)
        /\ \A i \in 1..Len(argv) :
               phil_args[1][i] =
                   (IF Contains(argv[i], "filename") /\ ~HasRecognizedSuffix(argv[i])
                    THEN WithDefaultSuffix(argv[i])
                    ELSE argv[i])

\* C15: on a file whose entry group has no definition dataset,
\* check_definition does not fail, and afterwards entry/definition exists
\* with value "NXmx".
C15_MissingDefinitionCreated ==
    (/\ LastPhase = "CHECK_DEFINITION"
     /\ Has(pre, <<"entry">>)
     /\ ~Has(pre, DefinitionPath))
    => /\ pc = "CHECK_DEFINITION"
       /\ Has(file, DefinitionPath)
       /\ Get(file, DefinitionPath).value.text = "NXmx"

\* what the last phase wrote to the dataset at path p
WritesOn(p) == {i \in 1..Len(last.writes) : last.writes[i].path = p}

\* dataset new is dataset old but for the attributes in keys, each of which
\* is as it was or holds its canonical value
RepairedOnly(old, new, canonical) ==
    /\ new.value = old.value
    /\ DOMAIN new.attrs = DOMAIN old.attrs
    /\ \A k \in DOMAIN old.attrs :
           \/ new.attrs[k] = old.attrs[k]
           \/ k \in DOMAIN canonical /\ new.attrs[k] = canonical[k]

\* the attribute writes of the last phase on p are of keys that were not
\* canonical, once each
WritesOnlyOffending(p, old, canonical) ==
    /\ \A i \in WritesOn(p) :
           /\ last.writes[i].op = "attr"
           /\ last.writes[i].key \in DOMAIN canonical
           /\ last.writes[i].key \in DOMAIN old.attrs
           /\ old.attrs[last.writes[i].key] # canonical[last.writes[i].key]
    /\ \A i, j \in WritesOn(p) :
           last.writes[i].key = last.writes[j].key => i = j

CanonicalDetZ ==
    ("vector" :> <<0, 0, -1>>)
    @@ ("depends_on" :> "/entry/instrument/detector/transformations/two_theta/two_theta")

CanonicalAxis(a) ==
    "depends_on" :>
        (CASE a = "omega" -> "."
           [] a = "kappa" -> "/entry/sample/transformations/omega"
           [] a = "phi" -> "/entry/sample/transformations/kappa"
           [] a = "sam_z" -> "/entry/sample/transformations/phi"
           [] a = "sam_y" -> "/entry/sample/transformations/sam_z"
           [] a = "sam_x" -> "/entry/sample/transformations/sam_y")

\* C16: a correction of check_I19_dependency_tree, or of the det_z vector or
\* depends_on in check_detector_transformations, overwrites the offending
\* attribute of the offending axis and nothing else: the axis keeps its value
\* and its other attributes, every other axis is as it was, and an axis whose
\* checked attributes are canonical is not written.
C16_MinimalRepairs ==
    /\ (LastPhase = "CHECK_SAMPLE_CHAIN" /\ Has(pre, SampleTransfPath)) =>
           /\ Del(file, SampleTransfPath) = Del(pre, SampleTransfPath)
           /\ DOMAIN Get(file, SampleTransfPath) = DOMAIN Get(pre, SampleTransfPath)
           /\ \A i \in 1..Len(last.writes) :
                  \E a \in Axes : last.writes[i].path = SampleTransfPath \o <<a>>
           /\ \A a \in Axes \cap DOMAIN Get(pre, SampleTransfPath) :
                  LET p == SampleTransfPath \o <<a>>
                  IN  /\ RepairedOnly(Get(pre, p), Get(file, p), CanonicalAxis(a))
                      /\ WritesOnlyOffending(p, Get(pre, p), CanonicalAxis(a))
    /\ LastPhase = "CHECK_DETECTOR_CHAIN" =>
           \A i \in 1..Len(checked) :
               LET p == checked[i] \o DetZPath
               IN  Has(pre, p) =>
                       /\ RepairedOnly(Get(pre, p), Get(file, p), CanonicalDetZ)
                       /\ WritesOnlyOffending(p, Get(pre, p), CanonicalDetZ)
                       /\ LET v == FixDetZVector(Ctx(pre), checked[i])
                              d == FixDetZDependsOn(Ctx(pre), checked[i])
                          IN  /\ Del(v.file, p) = Del(pre, p)
                              /\ Del(d.file, p) = Del(pre, p)

\* five axes pointed at the root and were repaired; each kept its units
C16_Witness ==
    /\ pc = "CHECK_SAMPLE_CHAIN"
    /\ \A a \in Axes : DepOf(pre, a) = "."
    /\ Len(last.writes) = 5
    /\ WritesOn(SampleTransfPath \o <<"omega">>) = {}
    /\ \A a \in Axes :
           Get(file, SampleTransfPath \o <<a>>)
               = Dataset(0, CanonicalAxis(a) @@ ("units" :> "deg"))

IsUnder(path, group) == IsPrefix(group, path)

\* C17: in a detector transformation group check_detector_transformations
\* works on two_theta whenever a member two_theta exists and on twotheta only
\* when two_theta is absent; when the group holds neither, the run fails for
\* that group and the check is not tried again on another group.
C17_AliasThenFatal ==
    LastPhase = "CHECK_DETECTOR_CHAIN" =>
        \A i \in 1..Len(checked) :
            LET g == checked[i]
            IN  /\ Has(pre, g \o <<"two_theta">>) =>
                       \A j \in 1..Len(last.writes) :
                           ~IsUnder(last.writes[j].path, g \o <<"twotheta">>)
                /\ (~Has(pre, g \o <<"two_theta">>) /\ Has(pre, g \o <<"twotheta">>)) =>
                       /\ ~Has(file, g \o <<"two_theta">>)
                       /\ Has(pre, g \o <<"twotheta", "twotheta">>) =>
                              Get(file, g \o <<"twotheta", "twotheta">>).value = 0
                /\ (~Has(pre, g \o <<"two_theta">>) /\ ~Has(pre, g \o <<"twotheta">>)) =>
                       /\ pc = "FAILED"
                       /\ Len(checked) = i

=============================================================================
